---- MODULE Spec2Model ----
(***************************************************************************)
(* Model of the medical-insights backend: the in-memory interview session  *)
(* service (interview_session_service.py), the rule-based question agent   *)
(* and the RAG advisor agent (agents.py), the retrieval client             *)
(* (vector_client.py), the transcript file repository                      *)
(* (interview_files_repo.py), the orchestrator (orchestrator.py) with the  *)
(* interviews repository (interviews_repo.py), the advisor routes          *)
(* (routers/agents.py, routers/interviews.py), the patients repository     *)
(* (patients_repo.py) and the files repository (files_repo.py).            *)
(*                                                                         *)
(* Python values are encoded as follows.                                   *)
(*   str            a TLA+ string                                          *)
(*   Optional[x]    << >> for None, <<x>> for a present value              *)
(*   dict (context) a set of <<key, value>> pairs                          *)
(*   datetime       a tick of the logical clock "now"; every utcnow() of   *)
(*                  one request reads the tick of that request             *)
(*   object id      the creation number "sid" of an InterviewSession       *)
(***************************************************************************)
EXTENDS Integers, Sequences, FiniteSets, TLC

VARIABLES
    sessions,   \* InterviewSessionService._sessions: patient_id -> InterviewSession
    files,      \* OneDrive/Interview/{patient_id}.txt: patient_id -> Optional[text]
    now,        \* logical clock, one tick per request
    nextSid,    \* number of InterviewSession objects constructed so far
    last,       \* the last service call: its arguments and what it returned or raised
    call,       \* one call of the retrieval client or of the advisor, and its outcome
    ask,        \* one direct call of InterviewAgent.next_questions, and its outcome
    http,       \* the last request to an advisor route, and its response
    interviews, \* InterviewsRepository._items: interview_id -> Interview
    patients,   \* PatientsRepository._items: patient id -> Patient
    path        \* one call of _safe_join or of FilesRepository, and its outcome

svars == <<sessions, files, now, nextSid, last>>
rvars == <<patients, path>>
ovars == <<ask, http, interviews, rvars>>
vars == <<sessions, files, now, nextSid, last, call, ask, http, interviews, patients, path>>

(***************************************************************************)
(* Bounds and input sets                                                   *)
(***************************************************************************)
MaxOps == 4

Patients == {"p1", "p2"}

None == << >>
Some(x) == <<x>>

ChiefComplaints == {None, Some("  Headache "), Some("Severity Duration")}
Contexts == {None, Some({<<"allergy", "penicillin">>})}
Answers == {None, Some("3 days, severity 7 triggers duration")}
IoOutcomes == {"ok", "open_error", "write_error"}

(***************************************************************************)
(* Python string primitives                                                *)
(***************************************************************************)
Uppers == "ABCDEFGHIJKLMNOPQRSTUVWXYZ"
Lowers == "abcdefghijklmnopqrstuvwxyz"

Ch(s, i) == SubSeq(s, i, i)

\* position of the one-character string c in alphabet a, 0 when absent
IndexIn(a, c) ==
    LET hits == {i \in 1..Len(a) : Ch(a, i) = c}
    IN IF hits = {} THEN 0 ELSE CHOOSE i \in hits : TRUE

LowerChar(c) == LET i == IndexIn(Uppers, c) IN IF i = 0 THEN c ELSE Ch(Lowers, i)
UpperChar(c) == LET i == IndexIn(Lowers, c) IN IF i = 0 THEN c ELSE Ch(Uppers, i)

\* str.lower() and str.upper(), character by character
RECURSIVE LowerChars(_)
LowerChars(s) ==
    IF Len(s) = 0 THEN "" ELSE LowerChar(Ch(s, 1)) \o LowerChars(SubSeq(s, 2, Len(s)))

RECURSIVE UpperChars(_)
UpperChars(s) ==
    IF Len(s) = 0 THEN "" ELSE UpperChar(Ch(s, 1)) \o UpperChars(SubSeq(s, 2, Len(s)))

IsSpace(c) == c \in {" ", "\t", "\n", "\r"}

RECURSIVE LStrip(_)
LStrip(s) == IF Len(s) > 0 /\ IsSpace(Ch(s, 1)) THEN LStrip(SubSeq(s, 2, Len(s))) ELSE s

RECURSIVE RStrip(_)
RStrip(s) == IF Len(s) > 0 /\ IsSpace(Ch(s, Len(s))) THEN RStrip(SubSeq(s, 1, Len(s) - 1)) ELSE s

Strip(s) == RStrip(LStrip(s))

\* needle in hay, by scanning the positions of hay
Scan(hay, needle) ==
    \E i \in 1..(Len(hay) - Len(needle) + 1) : SubSeq(hay, i, i + Len(needle) - 1) = needle

\* sep.join(parts)
RECURSIVE Join(_, _)
Join(sep, parts) ==
    IF Len(parts) = 0 THEN ""
    ELSE IF Len(parts) = 1 THEN parts[1]
    ELSE parts[1] \o sep \o Join(sep, Tail(parts))

\* x or default, for an Optional[str]: None and "" are both falsy
OrEmpty(opt) == IF opt = None THEN "" ELSE opt[1]

\* datetime.isoformat()
Iso(t) == "2024-01-01T00:00:0" \o ToString(t)

(***************************************************************************)
(* PatientInterviewAgent                                                    *)
(***************************************************************************)
QDuration == "How long have you been experiencing this issue?"
QSeverity == "How severe are your symptoms on a scale from 1 to 10?"
QTriggers == "Have you noticed any triggers or patterns that make it better or worse?"
QGeneric == "Do you have any other symptoms or concerns you'd like to share?"
QProbe(chief_complaint) == "Can you describe more details about: " \o chief_complaint \o "?"

\* Every text an agent turn of this model can hold, and the roles of a turn.
AgentContents ==
    {QDuration, QSeverity, QTriggers, QGeneric}
        \cup {QProbe(Strip(OrEmpty(cc))) : cc \in ChiefComplaints}
Roles == {"agent", "patient", "advisor"}

\* LowerChars and UpperChars tabulated once over the texts they are applied to.
LowerTable == [s \in AgentContents |-> LowerChars(s)]
UpperTable == [s \in Roles |-> UpperChars(s)]
Lower(s) == IF s \in AgentContents THEN LowerTable[s] ELSE LowerChars(s)
Upper(s) == IF s \in Roles THEN UpperTable[s] ELSE UpperChars(s)

\* Mutant of IsAgentTurn: the turns of every role are read.
IsAnyTurn(t) == t.role \in {"agent", "patient", "advisor"}

IsAgentTurn(t) == t.role = "agent"

\* " ".join([t.get("content", "").lower() for t in transcript if t.get("role") == "agent"])
Asked(transcript) ==
    LET agent == SelectSeq(transcript, IsAgentTurn)
    IN Join(" ", [i \in 1..Len(agent) |-> Lower(agent[i].content)])

Keywords == {"duration", "severity", "triggers"}

\* Mutant of Questions: the probe about the complaint is asked first.
QuestionsProbeFirst(chief_complaint, found) ==
    LET q1 == IF "duration" \notin found THEN <<QDuration>> ELSE << >>
        q2 == IF "severity" \notin found THEN <<QSeverity>> ELSE << >>
        q3 == IF "triggers" \notin found THEN <<QTriggers>> ELSE << >>
        q4 == IF chief_complaint # "" THEN <<QProbe(chief_complaint)>> ELSE << >>
        questions == q4 \o q1 \o q2 \o q3
    IN IF questions = << >> THEN <<QGeneric>> ELSE questions

\* Mutant of Questions: no closing question when nothing else is asked.
QuestionsNoFallback(chief_complaint, found) ==
    LET q1 == IF "duration" \notin found THEN <<QDuration>> ELSE << >>
        q2 == IF "severity" \notin found THEN <<QSeverity>> ELSE << >>
        q3 == IF "triggers" \notin found THEN <<QTriggers>> ELSE << >>
        q4 == IF chief_complaint # "" THEN <<QProbe(chief_complaint)>> ELSE << >>
    IN q1 \o q2 \o q3 \o q4

\* The body of next_questions after asked is built; found holds the keywords
\* k with "k in asked".
Questions(chief_complaint, found) ==
    LET q1 == IF "duration" \notin found THEN <<QDuration>> ELSE << >>
        q2 == IF "severity" \notin found THEN <<QSeverity>> ELSE << >>
        q3 == IF "triggers" \notin found THEN <<QTriggers>> ELSE << >>
        q4 == IF chief_complaint # "" THEN <<QProbe(chief_complaint)>> ELSE << >>
        questions == q1 \o q2 \o q3 \o q4
    IN IF questions = << >> THEN <<QGeneric>> ELSE questions

\* Scan tabulated once over the haystacks a session builds in MaxOps rounds of
\* questions; Contains is Scan, looked up where tabulated.
RECURSIVE AskedAfter(_, _, _)
AskedAfter(chief_complaint, parts, n) ==
    LET asked == Join(" ", parts)
        qs == Questions(chief_complaint, {k \in Keywords : Scan(asked, k)})
    IN {asked} \cup
       (IF n = 0 THEN {}
        ELSE AskedAfter(chief_complaint,
                        parts \o [i \in 1..Len(qs) |-> Lower(qs[i])], n - 1))

Haystacks == UNION {AskedAfter(Strip(OrEmpty(cc)), << >>, MaxOps) : cc \in ChiefComplaints}
ScanTable == [h \in Haystacks |-> {k \in Keywords : Scan(h, k)}]

Contains(hay, needle) ==
    IF hay \in Haystacks /\ needle \in Keywords THEN needle \in ScanTable[hay]
    ELSE Scan(hay, needle)

next_questions(chief_complaint, transcript) ==
    LET asked == Asked(transcript)
    IN Questions(chief_complaint, {k \in Keywords : Contains(asked, k)})

(***************************************************************************)
(* InterviewSession                                                         *)
(***************************************************************************)
InterviewSession(patient_id, chief_complaint, context, t, sid) ==
    [ sid             |-> sid,
      patient_id      |-> patient_id,
      chief_complaint |-> Strip(OrEmpty(chief_complaint)),
      context         |-> IF context = None THEN {} ELSE context[1],
      created_at      |-> t,
      updated_at      |-> t,
      completed       |-> FALSE,
      transcript      |-> << >> ]

\* Mutant of append_turn: the new turn is put before the turns already there.
prepend_turn(session, role, content, t) ==
    [session EXCEPT
        !.transcript = <<[role |-> role, content |-> content,
                          timestamp |-> Iso(t) \o "Z"]>> \o @,
        !.updated_at = t]

append_turn(session, role, content, t) ==
    [session EXCEPT
        !.transcript = Append(@, [role |-> role, content |-> content,
                                  timestamp |-> Iso(t) \o "Z"]),
        !.updated_at = t]

\* Mutant of append_agent_turns: the questions are stored as advisor turns.
RECURSIVE append_advisor_turns(_, _, _)
append_advisor_turns(session, questions, t) ==
    IF questions = << >> THEN session
    ELSE append_advisor_turns(append_turn(session, "advisor", Head(questions), t),
                              Tail(questions), t)

\* for q in questions: session.append_turn("agent", q)
RECURSIVE append_agent_turns(_, _, _)
append_agent_turns(session, questions, t) ==
    IF questions = << >> THEN session
    ELSE append_agent_turns(append_turn(session, "agent", Head(questions), t),
                            Tail(questions), t)

Dashes == "------------------------------------------------------------"

TurnLine(t) == "[" \o t.timestamp \o "] " \o Upper(t.role) \o ": " \o t.content

\* Mutant of to_text: the turns are written newest first.
to_text_newest_first(session) ==
    LET header == << "Patient Interview Transcript",
                     "Patient ID: " \o session.patient_id,
                     "Chief Complaint: " \o session.chief_complaint,
                     "Created: " \o Iso(session.created_at) \o "Z",
                     "Updated: " \o Iso(session.updated_at) \o "Z",
                     Dashes >>
        n == Len(session.transcript)
        body == [i \in 1..n |-> TurnLine(session.transcript[n + 1 - i])]
    IN Join("\n", header \o body)

to_text(session) ==
    LET header == << "Patient Interview Transcript",
                     "Patient ID: " \o session.patient_id,
                     "Chief Complaint: " \o session.chief_complaint,
                     "Created: " \o Iso(session.created_at) \o "Z",
                     "Updated: " \o Iso(session.updated_at) \o "Z",
                     Dashes >>
        body == [i \in 1..Len(session.transcript) |-> TurnLine(session.transcript[i])]
    IN Join("\n", header \o body)

(***************************************************************************)
(* InterviewFilesRepository                                                 *)
(***************************************************************************)
\* os.path.relpath(full, base)
RelPath(patient_id) == "Interview/" \o patient_id \o ".txt"

\* The file store after write_text(patient_id, content) under I/O outcome io:
\* "ok" stores the content; "open_error" (makedirs or open fails) leaves the
\* store as it was; "write_error" fails after open(full, "w") has truncated.
write_text(fs, patient_id, content, io) ==
    IF io = "ok" THEN [fs EXCEPT ![patient_id] = Some(content)]
    ELSE IF io = "write_error" THEN [fs EXCEPT ![patient_id] = Some("")]
    ELSE fs

(***************************************************************************)
(* InterviewSessionService                                                  *)
(***************************************************************************)
\* Mutant of Put: the store is replaced by one that holds the new entry only.
PutAlone(f, k, v) == [x \in {k} |-> v]

Put(f, k, v) == [x \in DOMAIN f \cup {k} |-> IF x = k THEN v ELSE f[x]]
Del(f, k) == [x \in DOMAIN f \ {k} |-> f[x]]

NoCall == [op |-> "none", patient_id |-> "", chief_complaint |-> None, context |-> None,
           answer |-> None, io |-> "ok", result |-> "ok", questions |-> << >>,
           detail |-> "", log |-> << >>]

\* Mutant of Lookup: a lookup that creates the missing entry (setdefault).
LookupOrCreate(ss, p) ==
    IF p \in DOMAIN ss THEN Some(ss[p])
    ELSE Some(InterviewSession(p, None, None, now, nextSid))

\* self._sessions.get(patient_id)
Lookup(ss, p) == IF p \in DOMAIN ss THEN Some(ss[p]) ELSE None

\* Mutant of HasActiveSession: the completed flag tested the wrong way round.
HasCompletedSession(ss, p) == p \in DOMAIN ss /\ ss[p].completed

\* line 76: patient_id in self._sessions and not self._sessions[patient_id].completed
HasActiveSession(ss, p) == p \in DOMAIN ss /\ ~ss[p].completed

\* Mutant of SessionFor: a resumed session takes the new chief complaint and context.
SessionForOverwriting(ss, p, cc, ctx, t, sid) ==
    IF HasActiveSession(ss, p)
    THEN [ss[p] EXCEPT !.chief_complaint = Strip(OrEmpty(cc)),
                       !.context = IF ctx = None THEN {} ELSE ctx[1]]
    ELSE InterviewSession(p, cc, ctx, t, sid)

\* lines 76-83: the session start_session works on
SessionFor(ss, p, cc, ctx, t, sid) ==
    IF HasActiveSession(ss, p) THEN ss[p] ELSE InterviewSession(p, cc, ctx, t, sid)

\* Mutant of NoActiveSession: the completed flag is not looked at.
NoSessionAtAll(session) == session = None

\* line 102: not session or session.completed
NoActiveSession(session) == session = None \/ session[1].completed

\* line 128: not session
NoSession(session) == session = None

\* line 134: session.completed = True
MarkCompleted(session) == [session EXCEPT !.completed = TRUE]

\* Mutants of AfterWrite: the entry is deleted whatever the write did (a finally
\* block), and the entry is never deleted.
AfterWriteAlwaysDeleting(ss, p, io) == Del(ss, p)
AfterWriteKeeping(ss, p, io) == ss

\* line 141, reached only when write_text returned: del self._sessions[patient_id]
AfterWrite(ss, p, io) == IF io = "ok" THEN Del(ss, p) ELSE ss

start_session(p, cc, ctx) ==
    /\ now < MaxOps
    /\ LET reuse == HasActiveSession(sessions, p)
           session == SessionFor(sessions, p, cc, ctx, now, nextSid)
           questions == next_questions(session.chief_complaint, session.transcript)
           after == append_agent_turns(session, questions, now)
       IN /\ sessions' = Put(sessions, p, after)
          /\ nextSid' = IF reuse THEN nextSid ELSE nextSid + 1
          /\ last' = [NoCall EXCEPT !.op = "start", !.patient_id = p,
                        !.chief_complaint = cc, !.context = ctx,
                        !.questions = questions,
                        !.log = IF reuse THEN <<"Session already active">>
                                ELSE <<"Started new interview session">>]
    /\ now' = now + 1
    /\ UNCHANGED <<files, call, ovars>>

submit_answer(p, answer) ==
    /\ now < MaxOps
    /\ LET session == Lookup(sessions, p)
       IN IF NoActiveSession(session)
          THEN /\ last' = [NoCall EXCEPT !.op = "answer", !.patient_id = p,
                             !.answer = answer, !.result = "no_active_session"]
               /\ UNCHANGED sessions
          ELSE LET withAnswer == append_turn(session[1], "patient", OrEmpty(answer), now)
                   questions == next_questions(withAnswer.chief_complaint,
                                               withAnswer.transcript)
                   after == IF questions = << >> THEN withAnswer
                            ELSE append_agent_turns(withAnswer, questions, now)
               IN /\ sessions' = Put(sessions, p, after)
                  /\ last' = [NoCall EXCEPT !.op = "answer", !.patient_id = p,
                                !.answer = answer, !.questions = questions,
                                !.log = IF questions = << >>
                                        THEN <<"No additional questions generated">>
                                        ELSE << >>]
    /\ now' = now + 1
    /\ UNCHANGED <<files, nextSid, call, ovars>>

end_session(p, io) ==
    /\ now < MaxOps
    /\ LET found == Lookup(sessions, p)
       IN IF NoSession(found)
          THEN /\ io = "ok"      \* write_text is not reached
               /\ last' = [NoCall EXCEPT !.op = "end", !.patient_id = p,
                             !.result = "no_session"]
               /\ UNCHANGED <<sessions, files>>
          ELSE LET session == MarkCompleted(found[1])
                   marked == Put(sessions, p, session)
                   text == to_text(session)
               IN /\ files' = write_text(files, p, text, io)
                  /\ sessions' = AfterWrite(marked, p, io)
                  /\ last' = [NoCall EXCEPT !.op = "end", !.patient_id = p, !.io = io,
                                !.result = IF io = "ok" THEN "ok"
                                           ELSE "persistence_failure",
                                !.detail = IF io = "ok"
                                           THEN "transcript_written:" \o RelPath(p)
                                           ELSE "",
                                !.log = IF found[1].completed
                                        THEN <<"Session already completed">>
                                        ELSE << >>]
    /\ now' = now + 1
    /\ UNCHANGED <<nextSid, call, ovars>>

(***************************************************************************)
(* JSON / Python values of the retrieval path, tagged by kind k:           *)
(*   null, str, num (a float, in hundredths), nan (float NaN),              *)
(*   list (a sequence of values), obj (a dict: a sequence of <<key, value>>)*)
(***************************************************************************)
JNull == [k |-> "null"]
JNaN == [k |-> "nan"]
JStr(s) == [k |-> "str", v |-> s]
JNum(n) == [k |-> "num", v |-> n]
JList(xs) == [k |-> "list", v |-> xs]
JObj(pairs) == [k |-> "obj", v |-> pairs]

HasKey(d, key) == \E i \in 1..Len(d.v) : d.v[i][1] = key

\* d.get(key, default) of a dict d
Get(d, key, default) ==
    IF HasKey(d, key) THEN d.v[CHOOSE i \in 1..Len(d.v) : d.v[i][1] = key][2]
    ELSE default

\* The outcome of a call: a returned value or a raised exception.
Return(x) == [raised |-> FALSE, exc |-> "", value |-> x]
Raise(e) == [raised |-> TRUE, exc |-> e, value |-> JNull]

Min(a, b) == IF a < b THEN a ELSE b
Max(a, b) == IF a > b THEN a ELSE b

\* xs[:n] of a sequence
PySlice(xs, n) ==
    IF n >= 0 THEN SubSeq(xs, 1, Min(n, Len(xs)))
    ELSE SubSeq(xs, 1, Max(Len(xs) + n, 0))

RECURSIVE Repeat(_, _)
Repeat(s, n) == IF n = 0 THEN "" ELSE s \o Repeat(s, n - 1)

(***************************************************************************)
(* Inputs of the retrieval path                                            *)
(***************************************************************************)
MaxResults == 3

MaxItemsValues == -1..11

LongText == Repeat("guideline ", 31)

Snippets ==
    { JObj(<< <<"text", JStr("rest and fluids")>>, <<"score", JNum(87)>>,
              <<"source", JStr("who.pdf")>> >>),
      JObj(<< <<"text", JStr("see a neurologist")>>, <<"score", JNum(500)>> >>),
      JObj(<< <<"text", JStr("avoid caffeine")>>, <<"score", JNum(-25)>>,
              <<"source", JStr("nice.pdf")>> >>),
      JObj(<< <<"text", JStr(LongText)>> >>),
      JObj(<< <<"text", JStr("hydrate")>>, <<"score", JStr("0.7")>> >>),
      JObj(<< <<"text", JStr("sleep")>>, <<"score", JStr("high")>> >>),
      JObj(<< <<"text", JStr("triage")>>, <<"score", JNull>>,
              <<"source", JStr("cdc.pdf")>> >>),
      JObj(<< <<"text", JStr("monitor")>>, <<"score", JNaN>> >>) }

ResultLists == UNION {[1..n -> Snippets] : n \in 0..MaxResults}

\* The bodies of a 2xx response: not JSON at all, or a JSON value.
Bodies ==
    {[k |-> "text"]}
    \cup {[k |-> "json", v |-> j] :
            j \in {JNull, JStr("ok"), JNum(100), JList(<< >>),
                   JObj(<< >>),
                   JObj(<< <<"results", JNull>> >>),
                   JObj(<< <<"results", JStr("")>> >>),
                   JObj(<< <<"results", JStr("none")>> >>),
                   JObj(<< <<"results", JObj(<< >>)>> >>)}
                  \cup {JObj(<< <<"results", JList(r)>> >>) : r \in ResultLists}}

\* What the HTTP POST meets: a transport failure or a response <<status, body>>.
Replies ==
    {[k |-> "timeout"], [k |-> "connect_error"]}
    \cup {[k |-> "response", v |-> <<st, [k |-> "text"]>>] : st \in {404, 500}}
    \cup {[k |-> "response", v |-> <<200, b>>] : b \in Bodies}

(***************************************************************************)
(* VectorDBClient                                                           *)
(***************************************************************************)
\* lines 38-41, the body of the try
Post(reply) ==
    IF reply.k = "timeout" THEN Raise("TimeoutException")
    ELSE IF reply.k = "connect_error" THEN Raise("ConnectError")
    ELSE LET status == reply.v[1]
             body == reply.v[2]
         IN IF status < 200 \/ status > 299 THEN Raise("HTTPStatusError")   \* raise_for_status
            ELSE IF body.k = "text" THEN Raise("JSONDecodeError")          \* resp.json()
            ELSE IF body.v.k # "obj" THEN Raise("AttributeError")          \* data.get
            ELSE Return(Get(body.v, "results", JList(<< >>)))

\* Mutant of CatchAll: only the transport errors of httpx are caught.
CatchHttpxOnly(attempt) ==
    IF attempt.raised /\ attempt.exc \in {"TimeoutException", "ConnectError", "HTTPStatusError"}
    THEN Return(JList(<< >>))
    ELSE attempt

\* lines 42-44: except Exception: return []
CatchAll(attempt) == IF attempt.raised THEN Return(JList(<< >>)) ELSE attempt

query(text, top_k, reply) == CatchAll(Post(reply))

(***************************************************************************)
(* MedicalAdvisorAgent                                                      *)
(***************************************************************************)
Digits == "0123456789"

IsDigits(s) == Len(s) > 0 /\ \A i \in 1..Len(s) : IndexIn(Digits, Ch(s, i)) > 0

RECURSIVE DigitsValue(_)
DigitsValue(s) ==
    IF Len(s) = 0 THEN 0
    ELSE 10 * DigitsValue(SubSeq(s, 1, Len(s) - 1)) + IndexIn(Digits, Ch(s, Len(s))) - 1

\* float(s) of a str, in hundredths, for decimals "d+", "d+.d" and "d+.dd";
\* any other text of this model's inputs is no number: ValueError.
ParseFloat(s) ==
    LET dots == {i \in 1..Len(s) : Ch(s, i) = "."}
    IN IF dots = {} THEN
            IF IsDigits(s) THEN Return(JNum(100 * DigitsValue(s))) ELSE Raise("ValueError")
       ELSE LET d == CHOOSE i \in dots : TRUE
                int == SubSeq(s, 1, d - 1)
                frac == SubSeq(s, d + 1, Len(s))
            IN IF Cardinality(dots) = 1 /\ IsDigits(int) /\ IsDigits(frac) /\ Len(frac) <= 2
               THEN Return(JNum(100 * DigitsValue(int)
                                + (IF Len(frac) = 1 THEN 10 ELSE 1) * DigitsValue(frac)))
               ELSE Raise("ValueError")

\* float(x)
Float(x) ==
    IF x.k \in {"num", "nan"} THEN Return(x)
    ELSE IF x.k = "str" THEN ParseFloat(x.v)
    ELSE Raise("TypeError")

\* Python's max(a, b) and min(a, b) of floats: a, unless b compares beyond it
PyMax(a, b) == IF a.k = "num" /\ b.k = "num" /\ b.v > a.v THEN b ELSE a
PyMin(a, b) == IF a.k = "num" /\ b.k = "num" /\ b.v < a.v THEN b ELSE a

\* min(max(confidence, 0.0), 1.0)
Clamp(confidence) == PyMin(PyMax(confidence, JNum(0)), JNum(100))

\* item.get('text', '')[:300]
TextPrefix(item) ==
    LET text == Get(item, "text", JStr(""))
    IN IF text.k = "str" THEN Return(SubSeq(text.v, 1, Min(300, Len(text.v))))
       ELSE Raise("TypeError")

\* lines 48-59: the suggestion built from results[idx]
Suggestion(idx, item) ==
    IF item.k # "obj" THEN Raise("AttributeError")          \* item.get
    ELSE LET text == TextPrefix(item)
             confidence == Float(Get(item, "score", JNum(50)))
         IN IF text.raised THEN text
            ELSE IF confidence.raised THEN confidence
            ELSE Return([ title |-> "Suggestion #" \o ToString(idx + 1),
                          rationale |-> "Based on retrieved evidence: " \o text.value \o "...",
                          citations |-> <<Get(item, "source", JStr("guideline"))>>,
                          confidence |-> Clamp(confidence.value) ])

Sentinel ==
    [ title |-> "No strong evidence found",
      rationale |-> "The RAG system did not return relevant matches. Consider broadening the query.",
      citations |-> << >>,
      confidence |-> JNum(20) ]

\* results[:max_items] as the sequence the for loop walks
Sliced(results, max_items) ==
    IF results.k = "list" THEN Return(PySlice(results.v, max_items))
    ELSE IF results.k = "str"
         THEN LET chars == [i \in 1..Len(results.v) |-> JStr(Ch(results.v, i))]
              IN Return(PySlice(chars, max_items))
    ELSE Raise("TypeError")     \* None, a number, a dict (KeyError from Python 3.12)

\* Mutant of Loop: the results are walked from the last to the first.
RECURSIVE LoopReversed(_, _, _)
LoopReversed(items, idx, suggestions) ==
    IF idx >= Len(items) THEN Return(suggestions)
    ELSE LET one == Suggestion(idx, items[Len(items) - idx])
         IN IF one.raised THEN one
            ELSE LoopReversed(items, idx + 1, Append(suggestions, one.value))

\* lines 47-59: the loop, stopping at the first exception
RECURSIVE Loop(_, _, _)
Loop(items, idx, suggestions) ==
    IF idx >= Len(items) THEN Return(suggestions)
    ELSE LET one == Suggestion(idx, items[idx + 1])
         IN IF one.raised THEN one
            ELSE Loop(items, idx + 1, Append(suggestions, one.value))

\* Mutant of OrSentinel: an empty list of suggestions is returned as it is.
NoSentinel(suggestions) == suggestions

\* lines 60-68: if not suggestions: append the sentinel
OrSentinel(suggestions) == IF suggestions = << >> THEN <<Sentinel>> ELSE suggestions

\* line 45
TopK(max_items) == Max(5, max_items * 2)

advise(interview_text, max_items, reply) ==
    LET results == query(interview_text, TopK(max_items), reply)
    IN IF results.raised THEN results
       ELSE LET items == Sliced(results.value, max_items)
            IN IF items.raised THEN items
               ELSE LET built == Loop(items.value, 0, << >>)
                    IN IF built.raised THEN built
                       ELSE Return(OrSentinel(built.value))

(***************************************************************************)
(* MedicalOrchestrator.run_advisor_on_text, the method the advisor routes  *)
(* call (routers/agents.py lines 24 and 43, routers/interviews.py line 88) *)
(* and services/orchestrator.py does not define.  Modelled from section    *)
(* 4.5 of the specification: a pass-through to the advisor agent whose     *)
(* result is wrapped with the patient identifier.                          *)
(***************************************************************************)
Wrapped(patient_id, suggestions) ==
    [patient_id |-> patient_id, suggestions |-> suggestions]

run_advisor_on_text(patient_id, text, max_items, reply) ==
    LET suggestions == advise(text, max_items, reply)
    IN IF suggestions.raised THEN suggestions
       ELSE Return(Wrapped(patient_id, suggestions.value))

(***************************************************************************)
(* InterviewsRepository and the interview-id methods of MedicalOrchestrator *)
(***************************************************************************)
\* Interview(id=iid, ..., context=data.context or {}, created_at=now, updated_at=now,
\* transcript=[])
Interview(iid, patient_id, chief_complaint, t) ==
    [ id              |-> iid,
      patient_id      |-> patient_id,
      chief_complaint |-> chief_complaint,
      context         |-> {},
      created_at      |-> t,
      updated_at      |-> t,
      transcript      |-> << >> ]

\* interviews_repo.get(iid)
get(items, iid) == IF iid \in DOMAIN items THEN Some(items[iid]) ELSE None

\* interviews_repo.add_turn(iid, role, content); the turn is ChatTurn.model_dump()
add_turn(items, iid, role, content, t) ==
    IF iid \notin DOMAIN items THEN items
    ELSE [items EXCEPT
            ![iid].transcript = Append(@, [role |-> role, content |-> content,
                                           timestamp |-> t]),
            ![iid].updated_at = t]

RECURSIVE add_turns(_, _, _, _, _)
add_turns(items, iid, role, contents, t) ==
    IF contents = << >> THEN items
    ELSE add_turns(add_turn(items, iid, role, Head(contents), t), iid, role,
                   Tail(contents), t)

\* f"{confidence:.2f}" of a confidence held in hundredths
Fixed2(confidence) ==
    IF confidence.k = "nan" THEN "nan"
    ELSE ToString(confidence.v \div 100) \o "."
            \o ToString((confidence.v % 100) \div 10) \o ToString(confidence.v % 10)

\* f"{s['title']} - {s['rationale']} (confidence: {s['confidence']:.2f})"
AdvisorSummary(suggestion) ==
    suggestion.title \o " - " \o suggestion.rationale
        \o " (confidence: " \o Fixed2(suggestion.confidence) \o ")"

\* "\n".join([f"{t['role']}: {t['content']}" for t in interview.transcript])
transcript_text(transcript) ==
    Join("\n", [i \in 1..Len(transcript) |->
                    transcript[i].role \o ": " \o transcript[i].content])

\* MedicalOrchestrator.run_interview_step: the outcome and the repository after it
run_interview_step(items, interview_id, t) ==
    LET interview == get(items, interview_id)
    IN IF interview = None
       THEN [out |-> Raise("ValueError: Interview not found"), items |-> items]
       ELSE LET cc == OrEmpty(interview[1].chief_complaint)
                questions == next_questions(cc, interview[1].transcript)
            IN [out |-> Return([interview_id |-> interview_id, questions |-> questions]),
                items |-> add_turns(items, interview_id, "agent", questions, t)]

\* MedicalOrchestrator.run_advisor: the outcome and the repository after it
run_advisor(items, interview_id, max_items, reply, t) ==
    LET interview == get(items, interview_id)
    IN IF interview = None
       THEN [out |-> Raise("ValueError: Interview not found"), items |-> items]
       ELSE LET suggestions == advise(transcript_text(interview[1].transcript),
                                      max_items, reply)
            IN IF suggestions.raised THEN [out |-> suggestions, items |-> items]
               ELSE [out |-> Return([interview_id |-> interview_id,
                                     suggestions |-> suggestions.value]),
                     items |-> add_turns(items, interview_id, "advisor",
                                         [i \in 1..Len(suggestions.value) |->
                                             AdvisorSummary(suggestions.value[i])], t)]

(***************************************************************************)
(* PatientsRepository                                                       *)
(***************************************************************************)
\* _normalize_mrn: the stripped text, and its integer value when it is all digits
normalize_mrn(mrn) ==
    LET s == Strip(mrn)
    IN <<s, IF IsDigits(s) THEN Some(DigitsValue(s)) ELSE None>>

\* Mutant of SameMrn: the stripped texts are compared, numeric or not.
SameMrnText(src, dst) == src[1] = dst[1]

\* lines 48-53 and 135-142: two normalized MRNs match
SameMrn(src, dst) ==
    IF src[2] # None /\ dst[2] # None THEN src[2] = dst[2] ELSE src[1] = dst[1]

\* the truth value of an Optional[str]
Truthy(text) == text # None /\ text[1] # ""

\* _mrn_conflicts(mrn)
mrn_conflicts(items, mrn) ==
    \E pid \in DOMAIN items :
        /\ Truthy(items[pid].mrn)
        /\ SameMrn(normalize_mrn(mrn), normalize_mrn(items[pid].mrn[1]))

\* lines 126-142: the loop of update over the other patients
conflicts_with_others(items, pid, new_mrn) ==
    /\ items[pid].mrn # Some(new_mrn)
    /\ \E other \in DOMAIN items \ {pid} :
          /\ Truthy(items[other].mrn)
          /\ SameMrn(normalize_mrn(new_mrn), normalize_mrn(items[other].mrn[1]))

Patient(pid, mrn, t) == [id |-> pid, mrn |-> mrn, created_at |-> t, updated_at |-> t]

\* PatientsRepository.create with pid the fresh uuid: the outcome and the items after it
patients_create(items, pid, mrn, t) ==
    IF Truthy(mrn) /\ mrn_conflicts(items, mrn[1])
    THEN [out |-> Raise("ValueError: MRN already exists"), items |-> items]
    ELSE [out |-> Return(pid), items |-> Put(items, pid, Patient(pid, mrn, t))]

\* PatientsRepository.update with changes that hold at most an MRN
patients_update(items, pid, mrn, t) ==
    IF pid \notin DOMAIN items THEN [out |-> Return(JNull), items |-> items]
    ELSE IF Truthy(mrn) /\ conflicts_with_others(items, pid, mrn[1])
    THEN [out |-> Raise("ValueError: MRN already exists"), items |-> items]
    ELSE [out |-> Return(pid),
          items |-> [items EXCEPT ![pid].mrn = IF mrn = None THEN @ ELSE mrn,
                                  ![pid].updated_at = t]]

\* PatientsRepository.delete
patients_delete(items, pid) ==
    IF pid \in DOMAIN items THEN [out |-> Return(TRUE), items |-> Del(items, pid)]
    ELSE [out |-> Return(FALSE), items |-> items]

(***************************************************************************)
(* FilesRepository and the POSIX path functions it calls                   *)
(***************************************************************************)
\* str.startswith
StartsWith(s, prefix) == Len(prefix) <= Len(s) /\ SubSeq(s, 1, Len(prefix)) = prefix

\* s.split("/")
RECURSIVE SplitSlash(_)
SplitSlash(s) ==
    LET at == {i \in 1..Len(s) : Ch(s, i) = "/"}
    IN IF at = {} THEN <<s>>
       ELSE LET i == CHOOSE x \in at : \A y \in at : x <= y
            IN <<SubSeq(s, 1, i - 1)>> \o SplitSlash(SubSeq(s, i + 1, Len(s)))

\* os.path.join(a, b)
path_join(a, b) ==
    IF StartsWith(b, "/") THEN b
    ELSE IF a = "" \/ Ch(a, Len(a)) = "/" THEN a \o b
    ELSE a \o "/" \o b

\* the loop of normpath over the components: "" and "." are dropped, ".." takes
\* back the component before it, is dropped at the root, and is kept otherwise
RECURSIVE Collapse(_, _, _)
Collapse(comps, new_comps, rooted) ==
    IF Len(comps) = 0 THEN new_comps
    ELSE LET comp == Head(comps)
         IN IF comp \in {"", "."} THEN Collapse(Tail(comps), new_comps, rooted)
            ELSE IF comp # ".."
                    \/ (~rooted /\ Len(new_comps) = 0)
                    \/ (Len(new_comps) > 0 /\ new_comps[Len(new_comps)] = "..")
            THEN Collapse(Tail(comps), Append(new_comps, comp), rooted)
            ELSE IF Len(new_comps) > 0
            THEN Collapse(Tail(comps), SubSeq(new_comps, 1, Len(new_comps) - 1), rooted)
            ELSE Collapse(Tail(comps), new_comps, rooted)

\* os.path.normpath
normpath(p) ==
    IF p = "" THEN "."
    ELSE LET slashes == IF StartsWith(p, "//") /\ ~StartsWith(p, "///") THEN "//"
                        ELSE IF StartsWith(p, "/") THEN "/" ELSE ""
             out == slashes \o Join("/", Collapse(SplitSlash(p), << >>, slashes # ""))
         IN IF out = "" THEN "." ELSE out

\* the working directory of the server process
Cwd == "/app"

\* os.path.abspath
abspath(p) == normpath(IF StartsWith(p, "/") THEN p ELSE path_join(Cwd, p))

\* head.rstrip("/")
RECURSIVE RStripSlash(_)
RStripSlash(s) ==
    IF Len(s) > 0 /\ Ch(s, Len(s)) = "/" THEN RStripSlash(SubSeq(s, 1, Len(s) - 1)) ELSE s

\* os.path.dirname
dirname(p) ==
    LET at == {i \in 1..Len(p) : Ch(p, i) = "/"}
    IN IF at = {} THEN ""
       ELSE LET i == CHOOSE x \in at : \A y \in at : x >= y
                head == SubSeq(p, 1, i)
            IN IF \A j \in 1..Len(head) : Ch(head, j) = "/" THEN head ELSE RStripSlash(head)

InvalidPath == Raise("ValueError: Invalid path; attempted path traversal detected.")

\* _safe_join
safe_join(base, relative_path) ==
    LET target == normpath(path_join(base, relative_path))
    IN IF ~StartsWith(target, abspath(base)) THEN InvalidPath ELSE Return(target)

\* Settings: the two base directories, at their defaults
ONEDRIVE_BASE_PATH == abspath("./var/onedrive")
STORAGE_BASE_PATH == abspath("./var/storage")

BaseOf(use_onedrive) == IF use_onedrive THEN ONEDRIVE_BASE_PATH ELSE STORAGE_BASE_PATH

\* FilesRepository.read: the outcome and the path opened; io is what open does
files_read(relative_path, use_onedrive, io) ==
    LET full == safe_join(BaseOf(use_onedrive), relative_path)
    IN IF full.raised THEN [out |-> full, made |-> None, touched |-> None]
       ELSE IF io = "ok"
       THEN [out |-> Return(relative_path), made |-> None, touched |-> Some(full.value)]
       ELSE [out |-> Raise("FileNotFoundError"), made |-> None, touched |-> None]

\* FilesRepository.write: the outcome, the directory made and the path written
files_write(relative_path, use_onedrive, io) ==
    LET full == safe_join(BaseOf(use_onedrive), relative_path)
    IN IF full.raised THEN [out |-> full, made |-> None, touched |-> None]
       ELSE IF io = "ok"
       THEN [out |-> Return(relative_path), made |-> Some(dirname(full.value)),
             touched |-> Some(full.value)]
       ELSE [out |-> Raise("OSError"), made |-> Some(dirname(full.value)), touched |-> None]

(***************************************************************************)
(* The advisor routes: routers/agents.py and routers/interviews.py         *)
(***************************************************************************)
\* InterviewFilesRepository.exists and read_text
exists(fs, patient_id) == fs[patient_id] # None
read_text(fs, patient_id) == fs[patient_id][1]

\* What a route answers: the status, the detail of an HTTPException, the body
\* of a 200, and the max_items the advisor agent was run with, if it was run.
Response(status, detail, body, advised) ==
    [status |-> status, detail |-> detail, body |-> body, advised |-> advised]

\* max_items: int = Query(3, ge=1, le=10)
InQueryRange(max_items) == max_items >= 1 /\ max_items <= 10

\* the try block of agent_advisor_run and of run_advisor_on_file
Guarded(patient_id, text, max_items, reply) ==
    LET out == run_advisor_on_text(patient_id, text, max_items, reply)
    IN IF out.raised
       THEN Response(500, "Advisor failed: " \o out.exc, JNull, Some(max_items))
       ELSE Response(200, "", out.value, Some(max_items))

\* POST /agents/advisor/run
agent_advisor_run(fs, patient_id, max_items, reply) ==
    IF ~InQueryRange(max_items) THEN Response(422, "max_items", JNull, None)
    ELSE IF ~exists(fs, patient_id)
    THEN Response(404, "Interview file not found", JNull, None)
    ELSE Guarded(patient_id, read_text(fs, patient_id), max_items, reply)

\* POST /agents/crew/run: no try block, an exception leaves the handler
crew_run(fs, patient_id, max_items, reply) ==
    IF ~InQueryRange(max_items) THEN Response(422, "max_items", JNull, None)
    ELSE IF ~exists(fs, patient_id)
    THEN Response(404, "Interview file not found", JNull, None)
    ELSE LET out == run_advisor_on_text(patient_id, read_text(fs, patient_id),
                                        max_items, reply)
         IN IF out.raised
            THEN Response(500, "Internal Server Error", JNull, Some(max_items))
            ELSE Response(200, "", out.value, Some(max_items))

\* POST /interviews/{patient_id}/run-advisor; max_items: int = 3
run_advisor_on_file(fs, patient_id, max_items, reply) ==
    IF ~exists(fs, patient_id)
    THEN Response(404, "Interview file not found", JNull, None)
    ELSE Guarded(patient_id, read_text(fs, patient_id), max_items, reply)

(***************************************************************************)
(* One call of the retrieval path: the request, then the call's outcome    *)
(***************************************************************************)
NoRequest == [op |-> "none", patient_id |-> "", interview_id |-> "", mrn |-> None,
              text |-> "", max_items |-> 3,
              reply |-> [k |-> "timeout"], top_k |-> 0, out |-> Return(JNull)]

Requests ==
    {[NoRequest EXCEPT !.op = "request", !.text = "AGENT: How long?", !.max_items = m,
                       !.reply = r] : m \in MaxItemsValues, r \in Replies}

query_call ==
    /\ call.op = "request"
    /\ call' = [call EXCEPT !.op = "query", !.top_k = 5,
                            !.out = query(call.text, 5, call.reply)]
    /\ UNCHANGED <<svars, ovars>>

advise_call ==
    /\ call.op = "request"
    /\ call' = [call EXCEPT !.op = "advise", !.top_k = TopK(call.max_items),
                            !.out = advise(call.text, call.max_items, call.reply)]
    /\ UNCHANGED <<svars, ovars>>

run_advisor_on_text_call(p) ==
    /\ call.op = "request"
    /\ call' = [call EXCEPT !.op = "run_advisor_on_text", !.patient_id = p,
                            !.top_k = TopK(call.max_items),
                            !.out = run_advisor_on_text(p, call.text, call.max_items,
                                                        call.reply)]
    /\ UNCHANGED <<svars, ovars>>

\* nothing asked of the question agent, no request to a route, an empty repository
NoAsk == [op |-> "none", chief_complaint |-> "", transcript |-> << >>, out |-> << >>]
NoHttp == [route |-> "none", patient_id |-> "", max_items |-> 3, reply |-> [k |-> "timeout"],
           status |-> 0, detail |-> "", body |-> JNull, advised |-> None]
NoInterviews == << >>
NoPatients == << >>
NoPath == [op |-> "none", base |-> "", relative_path |-> "", made |-> None,
          touched |-> None, out |-> Return(JNull)]
Idle ==
    /\ ask = NoAsk
    /\ http = NoHttp
    /\ interviews = NoInterviews
    /\ patients = NoPatients
    /\ path = NoPath

\* The requests put to the advisor routes.
RouteMaxItems == {0, 1, 10, 11}

RouteReplies ==
    { [k |-> "timeout"],
      [k |-> "response",
       v |-> <<200, [k |-> "json", v |-> JObj(<< <<"results", JNull>> >>)]>>] }

Answered(route, patient_id, max_items, reply, response) ==
    [route |-> route, patient_id |-> patient_id, max_items |-> max_items, reply |-> reply,
     status |-> response.status, detail |-> response.detail, body |-> response.body,
     advised |-> response.advised]

post_agents_advisor_run(p, max_items, reply) ==
    /\ http' = Answered("/agents/advisor/run", p, max_items, reply,
                        agent_advisor_run(files, p, max_items, reply))
    /\ UNCHANGED <<svars, call, ask, interviews, rvars>>

post_agents_crew_run(p, max_items, reply) ==
    /\ http' = Answered("/agents/crew/run", p, max_items, reply,
                        crew_run(files, p, max_items, reply))
    /\ UNCHANGED <<svars, call, ask, interviews, rvars>>

post_interviews_run_advisor(p, max_items, reply) ==
    /\ http' = Answered("/interviews/{patient_id}/run-advisor", p, max_items, reply,
                        run_advisor_on_file(files, p, max_items, reply))
    /\ UNCHANGED <<svars, call, ask, interviews, rvars>>

SessionsInit ==
    /\ sessions = << >>
    /\ files = [p \in Patients |-> None]
    /\ now = 0
    /\ nextSid = 0
    /\ last = NoCall

Init == SessionsInit /\ call = NoRequest /\ Idle

Next ==
    \/ \E p \in Patients, cc \in ChiefComplaints, ctx \in Contexts : start_session(p, cc, ctx)
    \/ \E p \in Patients, a \in Answers : submit_answer(p, a)
    \/ \E p \in Patients, io \in IoOutcomes : end_session(p, io)

Spec == Init /\ [][Next]_vars

\* The retrieval path alone, over every request of the input sets.
AdvisorInit == SessionsInit /\ call \in Requests /\ Idle
AdvisorNext ==
    \/ query_call
    \/ advise_call
    \/ \E p \in Patients : run_advisor_on_text_call(p)
AdvisorSpec == AdvisorInit /\ [][AdvisorNext]_vars

\* The question agent called directly, over every request of the input sets,
\* beside the session service that calls it.
MaxTurns == 3

AskComplaints == {"", "Headache", "Severity Duration"}

AskTurns ==
    {[role |-> r, content |-> c, timestamp |-> Iso(0) \o "Z"] :
        <<r, c>> \in { <<"agent", QDuration>>,
                       <<"agent", QTriggers>>,
                       <<"agent", "What is the duration?">>,
                       <<"agent", "Rate the SEVERITY from 1 to 10.">>,
                       <<"patient", "duration severity triggers">>,
                       <<"advisor", "duration severity triggers">> }}

AskRequests ==
    {[NoAsk EXCEPT !.op = "request", !.chief_complaint = cc, !.transcript = tr] :
        cc \in AskComplaints, tr \in UNION {[1..n -> AskTurns] : n \in 0..MaxTurns}}

next_questions_call ==
    /\ ask.op = "request"
    /\ ask' = [ask EXCEPT !.op = "next_questions",
                          !.out = next_questions(ask.chief_complaint, ask.transcript)]
    /\ UNCHANGED <<svars, call, http, interviews, rvars>>

QuestionInit ==
    /\ SessionsInit
    /\ call = NoRequest
    /\ http = NoHttp
    /\ interviews = NoInterviews
    /\ patients = NoPatients
    /\ path = NoPath
    /\ ask \in AskRequests \cup {NoAsk}

QuestionNext ==
    \/ next_questions_call
    \/ ask = NoAsk /\ Next

QuestionSpec == QuestionInit /\ [][QuestionNext]_vars

\* The interview-id methods of the orchestrator over the interviews repository.
MaxLegacyOps == 3

InterviewIds == {"i1", "i2"}

LegacyReplies ==
    RouteReplies \cup
    { [k |-> "response",
       v |-> <<200, [k |-> "json",
                     v |-> JObj(<< <<"results", JList(<<
                              JObj(<< <<"text", JStr("rest and fluids")>>,
                                      <<"score", JNum(87)>>,
                                      <<"source", JStr("who.pdf")>> >>) >>)>> >>)]>>] }

\* interviews_repo.create, with iid the fresh uuid
create(iid, p, cc) ==
    /\ now < MaxLegacyOps
    /\ iid \notin DOMAIN interviews
    /\ interviews' = Put(interviews, iid, Interview(iid, p, cc, now))
    /\ call' = [NoRequest EXCEPT !.op = "create", !.interview_id = iid, !.patient_id = p]
    /\ now' = now + 1
    /\ UNCHANGED <<sessions, files, nextSid, last, ask, http, rvars>>

run_interview_step_call(iid) ==
    /\ now < MaxLegacyOps
    /\ LET done == run_interview_step(interviews, iid, now)
       IN /\ interviews' = done.items
          /\ call' = [NoRequest EXCEPT !.op = "run_interview_step", !.interview_id = iid,
                                       !.out = done.out]
    /\ now' = now + 1
    /\ UNCHANGED <<sessions, files, nextSid, last, ask, http, rvars>>

run_advisor_call(iid, max_items, reply) ==
    /\ now < MaxLegacyOps
    /\ LET done == run_advisor(interviews, iid, max_items, reply, now)
       IN /\ interviews' = done.items
          /\ call' = [NoRequest EXCEPT !.op = "run_advisor", !.interview_id = iid,
                                       !.max_items = max_items, !.reply = reply,
                                       !.top_k = TopK(max_items), !.out = done.out]
    /\ now' = now + 1
    /\ UNCHANGED <<sessions, files, nextSid, last, ask, http, rvars>>

LegacyNext ==
    \/ \E iid \in InterviewIds, p \in Patients, cc \in {None, Some("Headache")} :
          create(iid, p, cc)
    \/ \E iid \in InterviewIds : run_interview_step_call(iid)
    \/ \E iid \in InterviewIds, m \in RouteMaxItems, r \in LegacyReplies :
          run_advisor_call(iid, m, r)

LegacySpec == Init /\ [][LegacyNext]_vars

\* The patients repository over the MRNs of the input set.
MaxPatientOps == 3

PatientIds == {"u1", "u2", "u3"}

Mrns == {None, Some(""), Some("1"), Some("0001"), Some(" 1 "), Some("A1"), Some("a1")}

create_patient(pid, mrn) ==
    /\ now < MaxPatientOps
    /\ pid \notin DOMAIN patients
    /\ LET done == patients_create(patients, pid, mrn, now)
       IN /\ patients' = done.items
          /\ call' = [NoRequest EXCEPT !.op = "patients.create", !.patient_id = pid,
                                       !.mrn = mrn, !.out = done.out]
    /\ now' = now + 1
    /\ UNCHANGED <<sessions, files, nextSid, last, ask, http, interviews, path>>

update_patient(pid, mrn) ==
    /\ now < MaxPatientOps
    /\ LET done == patients_update(patients, pid, mrn, now)
       IN /\ patients' = done.items
          /\ call' = [NoRequest EXCEPT !.op = "patients.update", !.patient_id = pid,
                                       !.mrn = mrn, !.out = done.out]
    /\ now' = now + 1
    /\ UNCHANGED <<sessions, files, nextSid, last, ask, http, interviews, path>>

delete_patient(pid) ==
    /\ now < MaxPatientOps
    /\ LET done == patients_delete(patients, pid)
       IN /\ patients' = done.items
          /\ call' = [NoRequest EXCEPT !.op = "patients.delete", !.patient_id = pid,
                                       !.out = done.out]
    /\ now' = now + 1
    /\ UNCHANGED <<sessions, files, nextSid, last, ask, http, interviews, path>>

PatientsNext ==
    \/ \E pid \in PatientIds, mrn \in Mrns : create_patient(pid, mrn)
    \/ \E pid \in PatientIds, mrn \in Mrns : update_patient(pid, mrn)
    \/ \E pid \in PatientIds : delete_patient(pid)

PatientsSpec == Init /\ [][PatientsNext]_vars

\* _safe_join and the files repository over relative paths of a few segments.
MaxSegments == 3

Segments == {"..", ".", "notes", "a.txt", "onedrive", "onedrive-evil"}

RECURSIVE PathsOf(_)
PathsOf(n) ==
    IF n = 1 THEN Segments
    ELSE PathsOf(n - 1) \cup {p \o "/" \o seg : p \in PathsOf(n - 1), seg \in Segments}

RelativePaths == PathsOf(MaxSegments) \cup {"", "/etc/passwd", "/app/var/onedrive/a.txt"}

PathRequests == {[NoPath EXCEPT !.op = "request", !.relative_path = r] : r \in RelativePaths}

FileOutcomes == {"ok", "error"}

safe_join_call(use_onedrive) ==
    /\ path.op = "request"
    /\ path' = [path EXCEPT !.op = "_safe_join", !.base = BaseOf(use_onedrive),
                            !.out = safe_join(BaseOf(use_onedrive), path.relative_path)]
    /\ UNCHANGED <<svars, call, ask, http, interviews, patients>>

read_call(use_onedrive, io) ==
    /\ path.op = "request"
    /\ LET done == files_read(path.relative_path, use_onedrive, io)
       IN path' = [path EXCEPT !.op = "read", !.base = BaseOf(use_onedrive),
                               !.made = done.made, !.touched = done.touched,
                               !.out = done.out]
    /\ UNCHANGED <<svars, call, ask, http, interviews, patients>>

write_call(use_onedrive, io) ==
    /\ path.op = "request"
    /\ LET done == files_write(path.relative_path, use_onedrive, io)
       IN path' = [path EXCEPT !.op = "write", !.base = BaseOf(use_onedrive),
                               !.made = done.made, !.touched = done.touched,
                               !.out = done.out]
    /\ UNCHANGED <<svars, call, ask, http, interviews, patients>>

PathInit ==
    /\ SessionsInit
    /\ call = NoRequest
    /\ ask = NoAsk
    /\ http = NoHttp
    /\ interviews = NoInterviews
    /\ patients = NoPatients
    /\ path \in PathRequests

PathNext ==
    \/ \E use_onedrive \in BOOLEAN : safe_join_call(use_onedrive)
    \/ \E use_onedrive \in BOOLEAN, io \in FileOutcomes : read_call(use_onedrive, io)
    \/ \E use_onedrive \in BOOLEAN, io \in FileOutcomes : write_call(use_onedrive, io)

PathSpec == PathInit /\ [][PathNext]_vars

\* The session service, the advisor routes and the interview-id advisor method
\* together: the routes read the files that end_session writes.
MaxSystemOps == 2

SystemNext ==
    \/ \E p \in Patients : now < MaxSystemOps /\ start_session(p, Some("  Headache "), None)
    \/ \E p \in Patients, a \in Answers : now < MaxSystemOps /\ submit_answer(p, a)
    \/ \E p \in Patients, io \in IoOutcomes : now < MaxSystemOps /\ end_session(p, io)
    \/ \E p \in Patients, m \in RouteMaxItems, r \in RouteReplies :
          post_agents_advisor_run(p, m, r)
    \/ \E p \in Patients, m \in RouteMaxItems, r \in RouteReplies :
          post_agents_crew_run(p, m, r)
    \/ \E p \in Patients, m \in RouteMaxItems, r \in RouteReplies :
          post_interviews_run_advisor(p, m, r)
    \/ \E p \in Patients : now < MaxSystemOps /\ create("i1", p, None)
    \/ \E r \in LegacyReplies : now < MaxSystemOps /\ run_advisor_call("i1", 1, r)

SystemSpec == Init /\ [][SystemNext]_vars

(***************************************************************************)
(* Vocabulary of the properties                                            *)
(***************************************************************************)
\* the step is the service call op for patient p
Called(op, p) == now' = now + 1 /\ last'.op = op /\ last'.patient_id = p

Present(p) == p \in DOMAIN sessions
Active(p) == p \in DOMAIN sessions /\ sessions[p].completed = FALSE
Absent(p) == p \notin DOMAIN sessions

IsPrefix(a, b) == Len(a) <= Len(b) /\ SubSeq(b, 1, Len(a)) = a

\* how many agent turns of a transcript hold the text q
AgentCount(transcript, q) ==
    Cardinality({i \in 1..Len(transcript) :
                    transcript[i].role = "agent" /\ transcript[i].content = q})

(***************************************************************************)
(* C1. A start_session for a patient whose session is active resumes it:   *)
(* no session object is constructed, the store keeps the same keys, the    *)
(* entry of the patient is the same session object, and the transcript     *)
(* before the call is a prefix of the transcript after it.                 *)
(***************************************************************************)
C1_StartResumes ==
    [][\A p \in Patients :
          Active(p) /\ Called("start", p) =>
              /\ DOMAIN sessions' = DOMAIN sessions
              /\ nextSid' = nextSid
              /\ sessions'[p].sid = sessions[p].sid
              /\ sessions'[p].created_at = sessions[p].created_at
              /\ sessions'[p].completed = FALSE
              /\ IsPrefix(sessions[p].transcript, sessions'[p].transcript)]_vars

\* a start_session has resumed a session created by an earlier request
C1_Witness ==
    /\ last.op = "start"
    /\ last.log = <<"Session already active">>
    /\ Present(last.patient_id)
    /\ sessions[last.patient_id].created_at < now - 1
    /\ Len(sessions[last.patient_id].transcript) > Len(last.questions)

(***************************************************************************)
(* C2. When the write of end_session(p) fails, the call fails with the     *)
(* persistence failure and the entry of p stays in the store with the same *)
(* session object and transcript; an end_session(p) on the entry left by a *)
(* failed write whose write succeeds stores the text of that session under *)
(* p, removes the entry and returns the persisted reference; until then    *)
(* the transcript of the entry left by the failed write does not change.   *)
(***************************************************************************)
C2_FailedWriteKeepsEntry ==
    [][\A p \in Patients :
          /\ (Present(p) /\ Called("end", p) /\ last'.io # "ok" =>
                 /\ last'.result = "persistence_failure"
                 /\ p \in DOMAIN sessions'
                 /\ sessions'[p].sid = sessions[p].sid
                 /\ sessions'[p].transcript = sessions[p].transcript)
          /\ (Present(p) /\ sessions[p].completed /\ Called("end", p) /\ last'.io = "ok" =>
                 /\ last'.result = "ok"
                 /\ last'.detail = "transcript_written:Interview/" \o p \o ".txt"
                 /\ files'[p] = Some(to_text(sessions[p]))
                 /\ p \notin DOMAIN sessions')
          /\ (Present(p) /\ sessions[p].completed /\ p \in DOMAIN sessions'
              /\ sessions'[p].sid = sessions[p].sid =>
                 sessions'[p].transcript = sessions[p].transcript)]_vars

\* a retry of end_session, after a failed write, has persisted the transcript
C2_Witness ==
    /\ last.op = "end"
    /\ last.result = "ok"
    /\ last.log = <<"Session already completed">>
    /\ Absent(last.patient_id)
    /\ files[last.patient_id] # None
    /\ Len(files[last.patient_id][1]) > 0

(***************************************************************************)
(* C3. When end_session(p) fails because the write fails, the session of p *)
(* is as it was before the call (completed, chief_complaint, context and   *)
(* transcript), and a submit_answer(p, ...) right after it succeeds.       *)
(***************************************************************************)
C3_FailedEndLeavesSessionIntact ==
    [][\A p \in Patients :
          /\ (Present(p) /\ Called("end", p) /\ last'.io # "ok" =>
                 /\ p \in DOMAIN sessions'
                 /\ sessions'[p].completed = sessions[p].completed
                 /\ sessions'[p].chief_complaint = sessions[p].chief_complaint
                 /\ sessions'[p].context = sessions[p].context
                 /\ sessions'[p].transcript = sessions[p].transcript)
          /\ (last.op = "end" /\ last.patient_id = p /\ last.result = "persistence_failure"
              /\ last.log = << >> /\ Called("answer", p) =>
                 last'.result = "ok")]_vars

(***************************************************************************)
(* C4. A successful end_session(p) leaves p without a session; while p has *)
(* none, submit_answer(p, ...) and end_session(p) fail with the not-found  *)
(* condition and leave p without one; only start_session(p, ...) gives p a *)
(* session again.                                                          *)
(***************************************************************************)
C4_EndedUntilStart ==
    [][\A p \in Patients :
          /\ (Called("end", p) /\ last'.result = "ok" => p \notin DOMAIN sessions')
          /\ (Absent(p) /\ Called("answer", p) =>
                 last'.result = "no_active_session" /\ p \notin DOMAIN sessions')
          /\ (Absent(p) /\ Called("end", p) =>
                 last'.result = "no_session" /\ p \notin DOMAIN sessions')
          /\ (Absent(p) /\ p \in DOMAIN sessions' => Called("start", p))]_vars

\* an answer or an end is refused for a patient whose transcript was persisted
C4_Witness ==
    /\ last.op \in {"answer", "end"}
    /\ last.result \in {"no_active_session", "no_session"}
    /\ Absent(last.patient_id)
    /\ files[last.patient_id] # None
    /\ Len(files[last.patient_id][1]) > 0

(***************************************************************************)
(* C5. In every session each of the three canned questions (duration,      *)
(* severity, triggers) is the text of at most one agent turn.              *)
(***************************************************************************)
C5_CannedQuestionsOnce ==
    \A p \in DOMAIN sessions :
        \A q \in {QDuration, QSeverity, QTriggers} :
            AgentCount(sessions[p].transcript, q) <= 1

(***************************************************************************)
(* C6. submit_answer(p, text) for a patient with no session, or with only  *)
(* a completed one, fails with "no active session" and changes neither the *)
(* session store nor the files nor the number of sessions constructed.     *)
(***************************************************************************)
C6_AnswerWithoutActiveSession ==
    [][\A p \in Patients :
          ~Active(p) /\ Called("answer", p) =>
              /\ last'.result = "no_active_session"
              /\ last'.questions = << >>
              /\ sessions' = sessions
              /\ files' = files
              /\ nextSid' = nextSid]_vars

\* an answer was refused for a patient who has only a completed session
C6_Witness ==
    /\ last.op = "answer"
    /\ last.result = "no_active_session"
    /\ Present(last.patient_id)
    /\ sessions[last.patient_id].completed
    /\ Len(sessions[last.patient_id].transcript) > 0

(***************************************************************************)
(* C7. end_session(p) for a patient with no session record fails with the  *)
(* not-found condition, writes nothing (the files are as before) and       *)
(* leaves the session store as it was.                                     *)
(***************************************************************************)
C7_EndWithoutSession ==
    [][\A p \in Patients :
          Absent(p) /\ Called("end", p) =>
              /\ last'.result = "no_session"
              /\ last'.detail = ""
              /\ files' = files
              /\ sessions' = sessions]_vars

\* an end was refused for a patient who never had a session, another being active
C7_Witness ==
    /\ last.op = "end"
    /\ last.result = "no_session"
    /\ Absent(last.patient_id)
    /\ files[last.patient_id] = None
    /\ \E q \in Patients : Active(q)

(***************************************************************************)
(* C8. The chief_complaint and context of a session are those of the       *)
(* start_session that created it (an omitted chief complaint is stored as  *)
(* the empty string, an omitted context as the empty dict), and no         *)
(* start_session or submit_answer on the active session changes them.      *)
(***************************************************************************)
C8_ComplaintAndContextFixed ==
    [][\A p \in Patients :
          /\ (Active(p) /\ (Called("start", p) \/ Called("answer", p)) =>
                 /\ p \in DOMAIN sessions'
                 /\ sessions'[p].chief_complaint = sessions[p].chief_complaint
                 /\ sessions'[p].context = sessions[p].context)
          /\ (~Active(p) /\ Called("start", p) =>
                 /\ p \in DOMAIN sessions'
                 /\ (last'.chief_complaint = None => sessions'[p].chief_complaint = "")
                 /\ (last'.chief_complaint = Some("  Headache ")
                        => sessions'[p].chief_complaint = "Headache")
                 /\ (last'.context = None => sessions'[p].context = {})
                 /\ (last'.context # None => sessions'[p].context = last'.context[1]))]_vars

\* a session created without chief complaint and context was started again with both
C8_Witness ==
    /\ last.op = "start"
    /\ last.log = <<"Session already active">>
    /\ last.chief_complaint = Some("Severity Duration")
    /\ last.context # None
    /\ Present(last.patient_id)
    /\ sessions[last.patient_id].chief_complaint = ""
    /\ sessions[last.patient_id].context = {}

(***************************************************************************)
(* C9. For a 200 response {results: R} with R a list and max_items in      *)
(* 1..10, advise returns min(max_items, |R|) suggestions when R is not     *)
(* empty and the one sentinel suggestion (confidence 0.2, no citations)    *)
(* when R is empty; it never returns an empty list.                        *)
(***************************************************************************)
\* the list R of a response whose body is {results: R}; None for any other reply
ResultsOf(reply) ==
    IF /\ reply.k = "response"
       /\ reply.v[1] = 200
       /\ reply.v[2].k = "json"
       /\ reply.v[2].v.k = "obj"
       /\ HasKey(reply.v[2].v, "results")
       /\ Get(reply.v[2].v, "results", JNull).k = "list"
    THEN Some(Get(reply.v[2].v, "results", JNull).v)
    ELSE None

C9_AdviseLength ==
    call.op = "advise" /\ call.max_items \in 1..10 /\ ResultsOf(call.reply) # None =>
        LET R == ResultsOf(call.reply)[1]
        IN /\ call.out.raised = FALSE
           /\ Len(call.out.value) > 0
           /\ (R # << >> => Len(call.out.value) = Min(call.max_items, Len(R)))
           /\ (R = << >> =>
                  /\ Len(call.out.value) = 1
                  /\ call.out.value[1].confidence = JNum(20)
                  /\ call.out.value[1].citations = << >>)

(***************************************************************************)
(* C10. query never raises; on a timeout, a connection failure, a non-2xx  *)
(* status, a body that is not JSON or a JSON body that is not an object it *)
(* returns the empty list.                                                 *)
(***************************************************************************)
TransportOrProtocolFailure(reply) ==
    \/ reply.k \in {"timeout", "connect_error"}
    \/ /\ reply.k = "response"
       /\ \/ reply.v[1] # 200
          \/ reply.v[2].k = "text"
          \/ reply.v[2].v.k # "obj"

C10_QueryNeverRaises ==
    call.op = "query" =>
        /\ call.out.raised = FALSE
        /\ (TransportOrProtocolFailure(call.reply) => call.out.value = JList(<< >>))

\* a query that met a timeout has returned
C10_Witness ==
    /\ call.op = "query"
    /\ call.reply.k = "timeout"
    /\ call.out = Return(JList(<< >>))

(***************************************************************************)
(* C11. run_advisor_on_text changes no state and returns what the advisor  *)
(* agent returns, wrapped with the patient id; when the backend is         *)
(* unreachable or times out it returns exactly one suggestion, of          *)
(* confidence 0.2 and with no citation, and raises nothing.                *)
(***************************************************************************)
\* the retrieval backend cannot be reached, or does not answer in time
Unreachable(reply) == reply.k \in {"timeout", "connect_error"}

InRange(score) == IF score > 100 THEN 100 ELSE IF score < 0 THEN 0 ELSE score

C12_ConfidenceInRange ==
    call.op = "advise" /\ ~call.out.raised =>
        LET out == call.out.value
            R == IF ResultsOf(call.reply) = None THEN << >> ELSE ResultsOf(call.reply)[1]
        IN /\ \A i \in 1..Len(out) :
                 /\ out[i].confidence.k = "num"
                 /\ out[i].confidence.v >= 0
                 /\ out[i].confidence.v <= 100
           /\ R = << >> => out[1].confidence = JNum(20)
           /\ R # << >> /\ call.max_items \in 1..10 =>
                 \A i \in 1..Len(out) :
                    LET score == Get(R[i], "score", JNull)
                    IN score.k = "num" => out[i].confidence = JNum(InRange(score.v))

(***************************************************************************)
(* C13. When the score of a result is absent, null or a string that is no  *)
(* number, advise does not fail and the suggestion built from that result  *)
(* has confidence 0.5.                                                     *)
(***************************************************************************)
\* a text with a character that no decimal number has
NoNumber(s) == \E i \in 1..Len(s) : IndexIn("0123456789.", Ch(s, i)) = 0

NoUsableScore(item) ==
    \/ ~HasKey(item, "score")
    \/ Get(item, "score", JNull).k = "null"
    \/ Get(item, "score", JNull).k = "str" /\ NoNumber(Get(item, "score", JNull).v)

C13_DefaultConfidence ==
    call.op = "advise" /\ call.max_items \in 1..10 /\ ResultsOf(call.reply) # None =>
        LET R == ResultsOf(call.reply)[1]
            n == Min(call.max_items, Len(R))
        IN (n > 0 /\ \A i \in 1..n : NoUsableScore(R[i])) =>
              /\ ~call.out.raised
              /\ \A i \in 1..n : call.out.value[i].confidence = JNum(50)

(***************************************************************************)
(* C14. A 200 response whose JSON body is not an object holding a list     *)
(* under "results" (no such key; null, a string or an object under it; a   *)
(* body that is no object) counts as no results: query returns the empty   *)
(* list and advise returns exactly the sentinel, and neither raises.       *)
(***************************************************************************)
OtherShape(reply) ==
    /\ reply.k = "response"
    /\ reply.v[1] = 200
    /\ reply.v[2].k = "json"
    /\ ResultsOf(reply) = None

C14_OtherShapeIsNoResults ==
    OtherShape(call.reply) =>
        /\ call.op = "query" => call.out = Return(JList(<< >>))
        /\ call.op = "advise" =>
              /\ ~call.out.raised
              /\ Len(call.out.value) = 1
              /\ call.out.value[1].title = "No strong evidence found"
              /\ call.out.value[1].confidence = JNum(20)
              /\ call.out.value[1].citations = << >>

(***************************************************************************)
(* C15. A request to an advisor route (/agents/advisor/run,                *)
(* /agents/crew/run, /interviews/{patient_id}/run-advisor) whose max_items *)
(* is outside [1, 10] is rejected, and the advisor agent is not run.       *)
(***************************************************************************)
C15_MaxItemsValidated ==
    http.route # "none" /\ ~(http.max_items \in 1..10) =>
        /\ http.advised = None
        /\ http.status # 200
        /\ http.body = JNull

(***************************************************************************)
(* C16. The questions next_questions returns are a selection, without      *)
(* repeats, of duration, severity, triggers, probe, closing question in    *)
(* that order; with a non-empty chief complaint they hold the probe        *)
(* exactly once on every call; and a start_session that creates a session  *)
(* with a non-empty chief complaint returns exactly duration, severity,    *)
(* triggers, probe.                                                        *)
(***************************************************************************)
PriorityOrder(cc) == <<QDuration, QSeverity, QTriggers, QProbe(cc), QGeneric>>

\* the elements of order that are in the set keep, in the order of order
RECURSIVE Selection(_, _)
Selection(order, keep) ==
    IF order = << >> THEN << >>
    ELSE (IF Head(order) \in keep THEN <<Head(order)>> ELSE << >>)
            \o Selection(Tail(order), keep)

InPriorityOrder(qs, cc) ==
    qs = Selection(PriorityOrder(cc), {qs[i] : i \in 1..Len(qs)})

ProbeCount(qs, cc) == Cardinality({i \in 1..Len(qs) : qs[i] = QProbe(cc)})

\* the last call returned questions to the caller
Asking == last.op \in {"start", "answer"} /\ last.result = "ok"

C16_FixedPriorityOrder ==
    /\ ask.op = "next_questions" =>
          /\ InPriorityOrder(ask.out, ask.chief_complaint)
          /\ ask.chief_complaint # "" => ProbeCount(ask.out, ask.chief_complaint) = 1
    /\ Asking =>
          LET cc == sessions[last.patient_id].chief_complaint
          IN /\ InPriorityOrder(last.questions, cc)
             /\ cc # "" => ProbeCount(last.questions, cc) = 1
             /\ (cc # "" /\ last.log = <<"Started new interview session">>) =>
                    last.questions = <<QDuration, QSeverity, QTriggers, QProbe(cc)>>

C16_Witness ==
    /\ last.op = "start"
    /\ last.log = <<"Started new interview session">>
    /\ last.questions = <<QDuration, QSeverity, QTriggers, QProbe("Headache")>>

(***************************************************************************)
(* C17. next_questions returns exactly the one closing question if and     *)
(* only if the chief complaint is empty and the agent turns of the         *)
(* transcript mention all of duration, severity and triggers; it never     *)
(* returns the empty list, so every successful start_session and           *)
(* submit_answer appends at least one agent turn and submit_answer never   *)
(* takes its zero-questions branch.                                        *)
(***************************************************************************)
\* an agent turn of the transcript mentions the keyword, in any case
Mentioned(transcript, keyword) ==
    \E i \in 1..Len(transcript) :
        /\ transcript[i].role = "agent"
        /\ Scan(LowerChars(transcript[i].content), keyword)

NothingDue(transcript) ==
    \A keyword \in {"duration", "severity", "triggers"} : Mentioned(transcript, keyword)

C17_ClosingQuestionIff ==
    /\ ask.op = "next_questions" =>
          /\ ask.out # << >>
          /\ ask.out = <<QGeneric>> <=>
                (ask.chief_complaint = "" /\ NothingDue(ask.transcript))
    /\ Asking =>
          LET n == Len(last.questions)
              transcript == sessions[last.patient_id].transcript
          IN /\ n >= 1
             /\ Len(transcript) >= n
             /\ \A i \in 1..n :
                   /\ transcript[Len(transcript) - n + i].role = "agent"
                   /\ transcript[Len(transcript) - n + i].content = last.questions[i]
             /\ last.log # <<"No additional questions generated">>

C17_Witness ==
    /\ ask.op = "next_questions"
    /\ ask.chief_complaint = ""
    /\ NothingDue(ask.transcript)
    /\ ask.out = <<QGeneric>>

(***************************************************************************)
(* C18. Every call of run_interview_step(interview_id) and of              *)
(* run_advisor(interview_id, ...) fails, as a flow that is no longer       *)
(* supported, and leaves every stored transcript as it was.                *)
(***************************************************************************)
C18_LegacyUnsupported ==
    [][call'.op \in {"run_interview_step", "run_advisor"} /\ now' = now + 1 =>
         /\ call'.out.raised
         /\ interviews' = interviews]_vars

(***************************************************************************)
(* C19. advise builds its suggestions from the first max_items results in  *)
(* the order the backend returned them: the N-th suggestion is titled      *)
(* "Suggestion #N", its rationale quotes the text of the N-th result, and  *)
(* its citations hold exactly one element, the source of the N-th result   *)
(* or "guideline" when that result has no source.                          *)
(***************************************************************************)
\* the first 300 characters of the text of a result
Quoted(item) ==
    LET text == Get(item, "text", JStr("")).v
    IN IF Len(text) <= 300 THEN text ELSE SubSeq(text, 1, 300)

C19_FirstResultsInOrder ==
    (/\ call.op = "advise"
     /\ ~call.out.raised
     /\ call.max_items \in 1..10
     /\ ResultsOf(call.reply) # None
     /\ ResultsOf(call.reply) # Some(<< >>)) =>
        LET R == ResultsOf(call.reply)[1]
            out == call.out.value
        IN /\ Len(out) <= call.max_items
           /\ Len(out) <= Len(R)
           /\ \A N \in 1..Len(out) :
                 /\ out[N].title = "Suggestion #" \o ToString(N)
                 /\ out[N].rationale
                       = "Based on retrieved evidence: " \o Quoted(R[N]) \o "..."
                 /\ Len(out[N].citations) = 1
                 /\ out[N].citations[1] =
                       (IF HasKey(R[N], "source") THEN Get(R[N], "source", JNull)
                        ELSE JStr("guideline"))

C19_Witness ==
    /\ call.op = "advise"
    /\ ~call.out.raised
    /\ call.max_items = 2
    /\ ResultsOf(call.reply) # None
    /\ Len(ResultsOf(call.reply)[1]) = 3
    /\ Len(call.out.value) = 2
    /\ call.out.value[1].citations = <<JStr("guideline")>>
    /\ call.out.value[2].citations = <<JStr("nice.pdf")>>

(***************************************************************************)
(* C20. No run of the advisor, through a route or through                  *)
(* run_advisor(interview_id), changes any InterviewSession of the session  *)
(* store, and every turn of every transcript in the session store has the  *)
(* role agent or patient.                                                  *)
(***************************************************************************)
\* the step is a request to an advisor route, or a call of run_advisor
AdvisorStep ==
    \/ http'.route # "none" /\ now' = now
    \/ call'.op = "run_advisor" /\ (call' # call \/ interviews' # interviews)

OnlyAgentAndPatientTurns ==
    \A p \in DOMAIN sessions :
        \A i \in 1..Len(sessions[p].transcript) :
            sessions[p].transcript[i].role \in {"agent", "patient"}

C20_AdvisorLeavesSessions ==
    /\ [](OnlyAgentAndPatientTurns)
    /\ [][AdvisorStep => sessions' = sessions]_vars

C20_Witness ==
    /\ http.status = 200
    /\ http.advised # None
    /\ Len(http.body.suggestions) = 1
    /\ http.patient_id \in DOMAIN sessions
    /\ Len(sessions[http.patient_id].transcript) > 0

(***************************************************************************)
(* C21. The transcript of a session only grows at its end: a successful    *)
(* submit_answer(p, text) turns transcript T into T, then the patient turn *)
(* of text, then one agent turn per returned question in returned order; a *)
(* successful start_session turns T (empty for a new session) into T, then *)
(* one agent turn per returned question; the questions are those of the    *)
(* transcript that already holds the new patient turn; and no call on an   *)
(* active session removes, reorders or rewrites a turn.                    *)
(***************************************************************************)
\* the roles and contents of the turns of a transcript from position from on
RolesAndContents(transcript, from) ==
    [i \in 1..(Len(transcript) - from + 1) |->
        <<transcript[from + i - 1].role, transcript[from + i - 1].content>>]

AgentTurnsOf(questions) == [i \in 1..Len(questions) |-> <<"agent", questions[i]>>]

TextOf(answer) == IF answer = None THEN "" ELSE answer[1]

C21_TranscriptAppendOnly ==
    [][\A p \in Patients :
          LET T == IF Active(p) THEN sessions[p].transcript ELSE << >>
          IN /\ (Called("answer", p) /\ last'.result = "ok") =>
                  LET patient == <<"patient", TextOf(last'.answer)>>
                      seen == Append(T, [role |-> "patient",
                                         content |-> TextOf(last'.answer),
                                         timestamp |-> Iso(now) \o "Z"])
                  IN /\ Active(p)
                     /\ IsPrefix(T, sessions'[p].transcript)
                     /\ RolesAndContents(sessions'[p].transcript, Len(T) + 1)
                           = <<patient>> \o AgentTurnsOf(last'.questions)
                     /\ last'.questions = next_questions(sessions[p].chief_complaint, seen)
             /\ (Called("start", p) /\ last'.result = "ok") =>
                  /\ IsPrefix(T, sessions'[p].transcript)
                  /\ RolesAndContents(sessions'[p].transcript, Len(T) + 1)
                        = AgentTurnsOf(last'.questions)
             /\ (Active(p) /\ Present(p)') =>
                  IsPrefix(sessions[p].transcript, sessions'[p].transcript)]_vars

\* an answer has been appended after earlier turns, and questions after it
C21_Witness ==
    /\ last.op = "answer"
    /\ last.result = "ok"
    /\ Present(last.patient_id)
    /\ LET transcript == sessions[last.patient_id].transcript
           n == Len(last.questions)
       IN /\ n >= 2
          /\ Len(transcript) > 2 * n + 1
          /\ transcript[Len(transcript) - n].role = "patient"

(***************************************************************************)
(* C22. end_session(p) on a stored session marks it completed, renders it, *)
(* writes the text and only then deletes the entry: when the write         *)
(* succeeds the text under p is the header (patient id, chief complaint,   *)
(* created, updated) followed by one line per turn in transcript order,    *)
(* the entry is gone and the status carries the reference of the file;     *)
(* when the write fails the entry is still there, marked completed.        *)
(***************************************************************************)
RoleLabel(role) ==
    IF role = "agent" THEN "AGENT" ELSE IF role = "patient" THEN "PATIENT" ELSE "ADVISOR"

\* the lines the file of a session holds, one per element
RenderedLines(session) ==
    << "Patient Interview Transcript",
       "Patient ID: " \o session.patient_id,
       "Chief Complaint: " \o session.chief_complaint,
       "Created: " \o Iso(session.created_at) \o "Z",
       "Updated: " \o Iso(session.updated_at) \o "Z",
       "------------------------------------------------------------" >>
    \o [i \in 1..Len(session.transcript) |->
            "[" \o session.transcript[i].timestamp \o "] "
                \o RoleLabel(session.transcript[i].role) \o ": "
                \o session.transcript[i].content]

C22_EndStepsInOrder ==
    [][\A p \in Patients :
          (Present(p) /\ Called("end", p)) =>
              /\ last'.io = "ok" =>
                    /\ last'.result = "ok"
                    /\ files'[p] = Some(Join("\n", RenderedLines(sessions[p])))
                    /\ Absent(p)'
                    /\ last'.detail = "transcript_written:Interview/" \o p \o ".txt"
              /\ last'.io # "ok" =>
                    /\ last'.result = "persistence_failure"
                    /\ Present(p)'
                    /\ sessions'[p].completed
                    /\ sessions'[p].transcript = sessions[p].transcript
                    /\ last'.detail = ""]_vars

\* a session of several turns has been ended at the first attempt
C22_Witness ==
    /\ last.op = "end"
    /\ last.result = "ok"
    /\ last.log = << >>
    /\ Absent(last.patient_id)
    /\ files[last.patient_id] # None
    /\ Len(files[last.patient_id][1]) > 600

(***************************************************************************)
(* C23. With the requests of one patient serialized and the requests of    *)
(* different patients interleaved in any order, a start_session,           *)
(* submit_answer or end_session for p leaves the entry and the file of     *)
(* every other patient as they were, and gives p the entry and the file it *)
(* would give in a store and a folder that hold nothing but p's.           *)
(***************************************************************************)
\* the store and the folder with the entries of every other patient taken away
OnlyOf(p) == [q \in DOMAIN sessions \cap {p} |-> sessions[q]]
OnlyFileOf(p) == [q \in Patients |-> IF q = p THEN files[p] ELSE None]

\* the entry of p after the call, had it run on OnlyOf(p)
AloneStart(p, cc, ctx) ==
    LET session == SessionFor(OnlyOf(p), p, cc, ctx, now, nextSid)
    IN Some(append_agent_turns(
                session, next_questions(session.chief_complaint, session.transcript), now))

AloneAnswer(p, answer) ==
    LET found == Lookup(OnlyOf(p), p)
    IN IF NoActiveSession(found) THEN found
       ELSE LET seen == append_turn(found[1], "patient", OrEmpty(answer), now)
            IN Some(append_agent_turns(
                        seen, next_questions(seen.chief_complaint, seen.transcript), now))

AloneEnd(p, io) ==
    LET found == Lookup(OnlyOf(p), p)
    IN IF NoSession(found) THEN None
       ELSE Lookup(AfterWrite(Put(OnlyOf(p), p, MarkCompleted(found[1])), p, io), p)

AloneFile(p, io) ==
    IF Absent(p) THEN files[p]
    ELSE write_text(OnlyFileOf(p), p, to_text(MarkCompleted(sessions[p])), io)[p]

EntryAfter(p) == IF Present(p)' THEN Some(sessions'[p]) ELSE None

C23_PatientsIndependent ==
    [][\A p \in Patients :
          /\ (\E op \in {"start", "answer", "end"} : Called(op, p)) =>
                \A q \in Patients \ {p} :
                    /\ Present(q)' <=> Present(q)
                    /\ Present(q) => sessions'[q] = sessions[q]
                    /\ files'[q] = files[q]
          /\ Called("start", p) =>
                /\ EntryAfter(p) = AloneStart(p, last'.chief_complaint, last'.context)
                /\ files'[p] = files[p]
          /\ Called("answer", p) =>
                /\ EntryAfter(p) = AloneAnswer(p, last'.answer)
                /\ files'[p] = files[p]
          /\ Called("end", p) =>
                /\ EntryAfter(p) = AloneEnd(p, last'.io)
                /\ files'[p] = AloneFile(p, last'.io)]_vars

\* two patients have sessions under way, and an answer has been recorded
C23_Witness ==
    /\ Active("p1")
    /\ Active("p2")
    /\ last.op = "answer"
    /\ last.result = "ok"
    /\ sessions["p1"].chief_complaint # sessions["p2"].chief_complaint
    /\ \E i \in 1..Len(sessions["p1"].transcript) :
            sessions["p1"].transcript[i].role = "patient"

(***************************************************************************)
(* C24. What next_questions returns is fixed by the chief complaint and    *)
(* the contents of the agent turns, in order: it returns for a transcript  *)
(* what it returns for the agent turns of that transcript alone, whatever  *)
(* the patient and advisor turns hold, so two transcripts with the same    *)
(* agent contents get the same questions; and the call changes neither the *)
(* transcript nor any other state.                                         *)
(***************************************************************************)
\* the contents of the agent turns, in order
RECURSIVE AgentContentsOf(_)
AgentContentsOf(transcript) ==
    IF transcript = << >> THEN << >>
    ELSE (IF Head(transcript).role = "agent" THEN <<Head(transcript).content>> ELSE << >>)
            \o AgentContentsOf(Tail(transcript))

\* a transcript of agent turns only that holds these contents
AgentTurnsWith(contents) ==
    [i \in 1..Len(contents) |-> [role |-> "agent", content |-> contents[i],
                                 timestamp |-> ""]]

C24_AgentTurnsOnly ==
    [][ask.op = "request" /\ ask'.op = "next_questions" =>
         /\ ask'.out = next_questions(ask.chief_complaint,
                                      AgentTurnsWith(AgentContentsOf(ask.transcript)))
         /\ ask'.transcript = ask.transcript
         /\ ask'.chief_complaint = ask.chief_complaint
         /\ UNCHANGED <<sessions, files, interviews, call, http>>]_vars

\* keywords said by the patient and by the advisor have not counted
C24_Witness ==
    /\ ask.op = "next_questions"
    /\ \E i \in 1..Len(ask.transcript) :
          ask.transcript[i].role = "patient"
              /\ ask.transcript[i].content = "duration severity triggers"
    /\ \E i \in 1..Len(ask.transcript) : ask.transcript[i].role = "advisor"
    /\ \E i \in 1..Len(ask.transcript) : ask.transcript[i].role = "agent"
    /\ ask.out = <<QDuration, QSeverity>>

(***************************************************************************)
(* C25. A session object leaves the store, by deletion or by a new session *)
(* taking its place, only when the file of its patient holds the text of   *)
(* its transcript: no transcript is dropped without having been written.   *)
(***************************************************************************)
\* the session object stored for p before the step is not stored after it
Leaves(p) == Present(p) /\ (Absent(p)' \/ sessions'[p].sid # sessions[p].sid)

C25_NoTranscriptDiscarded ==
    [][\A p \in Patients :
          Leaves(p) => files'[p] = Some(Join("\n", RenderedLines(sessions[p])))]_vars

(***************************************************************************)
(* C26. No two stored patients have conflicting MRNs: numeric MRNs are the *)
(* same when they are equal as integers, whatever their leading zeros, and *)
(* other MRNs when they are the same string.  A create or an update that   *)
(* would bring in a conflict raises 'already exists' and leaves the        *)
(* repository as it was, and an update of a patient's own MRN to another   *)
(* padding of the same number is accepted.                                 *)
(***************************************************************************)
\* the stored patient has an MRN
HasMrn(items, pid) == items[pid].mrn # None /\ items[pid].mrn[1] # ""

Numeric(mrn) == IsDigits(Strip(mrn))

Conflicting(a, b) ==
    IF Numeric(a) /\ Numeric(b) THEN DigitsValue(Strip(a)) = DigitsValue(Strip(b)) ELSE a = b

\* some stored patient other than pid has an MRN that conflicts with mrn
TakenByAnother(items, pid, mrn) ==
    \E other \in DOMAIN items \ {pid} :
        HasMrn(items, other) /\ Conflicting(mrn, items[other].mrn[1])

MrnsUnique ==
    \A a, b \in DOMAIN patients :
        a # b /\ HasMrn(patients, a) /\ HasMrn(patients, b)
            => ~Conflicting(patients[a].mrn[1], patients[b].mrn[1])

AlreadyExists == Raise("ValueError: MRN already exists")

ConflictRejected ==
    /\ call'.op = "patients.create" /\ Truthy(call'.mrn)
            /\ TakenByAnother(patients, call'.patient_id, call'.mrn[1])
          => call'.out = AlreadyExists /\ patients' = patients
    /\ call'.op = "patients.update" /\ Truthy(call'.mrn)
            /\ call'.patient_id \in DOMAIN patients
            /\ TakenByAnother(patients, call'.patient_id, call'.mrn[1])
          => call'.out = AlreadyExists /\ patients' = patients

OwnPaddingAccepted ==
    call'.op = "patients.update" /\ Truthy(call'.mrn)
        /\ call'.patient_id \in DOMAIN patients
        /\ HasMrn(patients, call'.patient_id)
        /\ patients[call'.patient_id].mrn # call'.mrn
        /\ Numeric(call'.mrn[1])
        /\ Conflicting(call'.mrn[1], patients[call'.patient_id].mrn[1])
      => /\ call'.out = Return(call'.patient_id)
         /\ patients' = [patients EXCEPT ![call'.patient_id].mrn = call'.mrn,
                                          ![call'.patient_id].updated_at = now]

C26_MrnUnique ==
    /\ []MrnsUnique
    /\ [][ConflictRejected /\ OwnPaddingAccepted]_vars

\* "0001" was refused for a new patient because "1" is stored, by a patient
\* that has been updated since it was created
C26_Witness ==
    /\ call.op = "patients.create"
    /\ call.mrn = Some("0001")
    /\ call.out = AlreadyExists
    /\ \E pid \in DOMAIN patients :
          patients[pid].mrn = Some("1") /\ patients[pid].updated_at > patients[pid].created_at

(***************************************************************************)
(* C27. _safe_join either raises the invalid-path error or returns a       *)
(* normalized path that is the base directory or lies inside it, so that   *)
(* read and write open nothing outside the chosen base directory, sibling  *)
(* directories whose name starts with the name of the base included.       *)
(***************************************************************************)
\* target is the directory base or a path below it
Inside(target, base) == target = base \/ StartsWith(target, base \o "/")

Normalized(target) ==
    \A i \in 1..Len(SplitSlash(target)) :
        SplitSlash(target)[i] \notin {"..", "."} /\ (i > 1 => SplitSlash(target)[i] # "")

C27_NoPathTraversal ==
    /\ path.op = "_safe_join" =>
          \/ path.out = InvalidPath
          \/ ~path.out.raised /\ Normalized(path.out.value) /\ Inside(path.out.value, path.base)
    /\ path.op \in {"read", "write"} /\ path.touched # None =>
          Inside(path.touched[1], path.base)

====
